---- MODULE Spec2Model ----
(***************************************************************************)
(* Model of torii.mixins.bitstream_cache.BitstreamCacheMixin: the on-disk  *)
(* bitstream cache (directory tree, lookup, store) and the build() entry   *)
(* point that consults it.                                                 *)
(*                                                                         *)
(* Strings are sequences of one-character strings, paths are sequences of  *)
(* path components (strings).  The filesystem is a set of directories and  *)
(* a map from file paths to contents.  Every method of the mixin is an     *)
(* operator from the object, the filesystem and the arguments to an        *)
(* outcome: the filesystem after the call and either a returned value or   *)
(* the exception raised.                                                   *)
(***************************************************************************)
EXTENDS Naturals, Sequences, FiniteSets, TLC

VARIABLES
    obj,        \* the instance attributes set by __init__ (_cache_root, _cache_depth, _cache_rtl)
    fs,         \* the filesystem: [dirs : set of paths, files : path -> bytes]
    initialized,\* _init_cache_dir has been called on the instance
    ret,        \* the last call: operation, arguments, outcome, and what it found and changed
    calls       \* the invocations under way on concurrent threads, each with its position

vars == <<obj, fs, initialized, ret, calls>>

-----------------------------------------------------------------------------
(* Bounds *)

\* the number of stubs below a directory (for i in range(256)), scaled down
Fanout == 3
\* the largest _cache_depth an instance is constructed with
MaxDepth == 2
\* the number of bytes of a digest (plan.digest(size = 32)), scaled down
DigestBytes == 2
\* the longest string _decompose_digest is called with, and the hex digits it is made of
MaxDigestLen == 5
NumDigits == 2

-----------------------------------------------------------------------------
(* Strings, paths and the filesystem *)

HexChars == <<"0", "1", "2", "3", "4", "5", "6", "7", "8", "9", "a", "b", "c", "d", "e", "f">>

\* the radix of the format 02x
Radix == 16

\* f'{i:02x}'
Label(i) == <<HexChars[(i \div Radix) + 1], HexChars[(i % Radix) + 1]>>


\* Path.cwd() / '.torii_cache', and another directory the root can be set to
DefaultRoot == << <<".torii_cache">> >>
OtherRoot == << <<"alt_cache">> >>
Roots == {DefaultRoot, OtherRoot}

\* the build directory the executor writes its products to
BuildDir == << <<"build">> >>

EmptyFiles == [p \in {} |-> << >>]
EmptyFs == [dirs |-> {}, files |-> EmptyFiles]

\* Path.exists()
Exists(f, p) == p \in f.dirs \/ p \in DOMAIN f.files

\* the parent directory of a path exists (the working directory always does)
ParentExists(f, p) == Len(p) = 1 \/ SubSeq(p, 1, Len(p) - 1) \in f.dirs

\* Path.mkdir(), called on a path that does not exist and whose parent does
Mkdir(f, p) == [f EXCEPT !.dirs = @ \cup {p}]

\* open(p, 'wb'), write(bytes), close
WriteFile(f, p, bytes) ==
    [f EXCEPT !.files = [q \in DOMAIN f.files \cup {p} |-> IF q = p THEN bytes ELSE f.files[q]]]

IsPrefix(r, p) == Len(r) <= Len(p) /\ SubSeq(p, 1, Len(r)) = r

\* the directories and files at or below a directory
Under(f, r) ==
    [dirs  |-> {p \in f.dirs : IsPrefix(r, p)},
     files |-> [p \in {q \in DOMAIN f.files : IsPrefix(r, q)} |-> f.files[p]]]

\* a file <digest>.bin is somewhere at or below the root
HasEntry(f, root, digest) ==
    \E p \in DOMAIN f.files : IsPrefix(root, p) /\ p[Len(p)] = digest \o <<".bin">>

-----------------------------------------------------------------------------
(* Outcomes of a call *)

None == [none |-> TRUE]

Return(f, v) == [fs |-> f, kind |-> "return", val |-> v, exc |-> "", trace |-> << >>, execs |-> 0]
Raise(f, e)  == [fs |-> f, kind |-> "raise", val |-> None, exc |-> e, trace |-> << >>, execs |-> 0]

-----------------------------------------------------------------------------
(* Attribute access on the instance *)

\* what the class body defines: the properties and the methods
ClassAttrs ==
    {"cache_rtl", "cache_depth", "cache_root",
     "_decompose_digest", "_init_cache_dir", "_get_cache_dir", "_get_from_cache",
     "_store_to_cache", "_build_elaboratable", "build"}

\* self.<a> resolves: a is set on the instance or defined by the class
HasAttr(o, a) == a \in DOMAIN o \/ a \in ClassAttrs

\* __init__
NewObject(depth) == [_cache_root |-> DefaultRoot, _cache_depth |-> depth, _cache_rtl |-> TRUE]

\* the cache_rtl and cache_depth getters
cache_rtl(o) == o._cache_rtl
cache_depth(o) == o._cache_depth

-----------------------------------------------------------------------------
(* The cache tree *)

\* _decompose_digest that steps by one character: digest[i:(i+2)]
_decompose_digest_stride(digest) ==
    [i \in 1..(Len(digest) \div 2) |-> SubSeq(digest, i, i + 1)]

\* _decompose_digest that keeps the odd last character as a short token of its own:
\* for i in range((len(digest) + 1) // 2)
_decompose_digest_ceil(digest) ==
    [i \in 1..((Len(digest) + 1) \div 2) |->
        SubSeq(digest, (2 * (i - 1)) + 1,
               IF (2 * (i - 1)) + 2 <= Len(digest) THEN (2 * (i - 1)) + 2 ELSE Len(digest))]

\* _decompose_digest: digest[(i*2):((i*2)+2)] for i in range(len(digest) // 2)
_decompose_digest(digest) ==
    [i \in 1..(Len(digest) \div 2) |-> SubSeq(digest, (2 * (i - 1)) + 1, (2 * (i - 1)) + 2)]

\* _init_dir without its recursive call: only the first level of stubs is made
RECURSIVE _init_dir_flat(_, _, _, _)
_init_dir_flat(f, root, depth, i) ==
    IF depth = 0 \/ i = Fanout THEN f
    ELSE LET cache_stub == Append(root, Label(i))
         IN  IF Exists(f, cache_stub)
             THEN _init_dir_flat(f, root, depth, i + 1)
             ELSE _init_dir_flat(Mkdir(f, cache_stub), root, depth, i + 1)

\* _init_dir(root, depth), from iteration i of its loop `for i in range(256)` on
RECURSIVE _init_dir(_, _, _, _)
_init_dir(f, root, depth, i) ==
    IF depth = 0 \/ i = Fanout THEN f
    ELSE LET cache_stub == Append(root, Label(i))
         IN  IF Exists(f, cache_stub)
             THEN _init_dir(f, root, depth, i + 1)
             ELSE _init_dir(_init_dir(Mkdir(f, cache_stub), cache_stub, depth - 1, 0),
                            root, depth, i + 1)

\* _init_cache_dir that fills in the tree of a root that exists instead of returning
_init_cache_dir_repair(o, f) ==
    IF Exists(f, o._cache_root)
    THEN Return(_init_dir(f, o._cache_root, cache_depth(o), 0), None)
    ELSE IF ~ParentExists(f, o._cache_root) THEN Raise(f, "FileNotFoundError")
    ELSE Return(_init_dir(Mkdir(f, o._cache_root), o._cache_root, cache_depth(o), 0), None)

\* _init_cache_dir that makes the root and leaves the stubs for later
_init_cache_dir_rootonly(o, f) ==
    IF Exists(f, o._cache_root) THEN Return(f, None)
    ELSE IF ~ParentExists(f, o._cache_root) THEN Raise(f, "FileNotFoundError")
    ELSE Return(Mkdir(f, o._cache_root), None)

\* _init_cache_dir
_init_cache_dir(o, f) ==
    IF Exists(f, o._cache_root) THEN Return(f, None)
    ELSE IF ~ParentExists(f, o._cache_root) THEN Raise(f, "FileNotFoundError")
    ELSE Return(_init_dir(Mkdir(f, o._cache_root), o._cache_root, cache_depth(o), 0), None)

\* the cache_root getter
cache_root(o, f) ==
    LET init == _init_cache_dir(o, f)
    IN  IF init.kind = "raise" THEN init ELSE Return(init.fs, o._cache_root)

\* the slice s[:n]
SliceTo(s, n) == SubSeq(s, 1, IF n < Len(s) THEN n ELSE Len(s))

\* _get_cache_dir
_get_cache_dir(o, f, digest) ==
    LET root == cache_root(o, f)
    IN  IF root.kind = "raise" THEN root
        ELSE LET tokens == _decompose_digest(digest)
             IN  IF ~HasAttr(o, "tree_depth") THEN Raise(root.fs, "AttributeError")
                 ELSE Return(root.fs, root.val \o SliceTo(tokens, o.tree_depth))

-----------------------------------------------------------------------------
(* Build plans, the executor and build products (torii.build.run) *)

Designs == {"d1", "d2"}
Names == {<<"top">>}

\* the digest of a design's plan: those of d1 and d2 differ in the last digit only
DesignDigest(design) ==
    [i \in 1..(2 * DigestBytes) |->
        IF design = "d2" /\ i = 2 * DigestBytes THEN HexChars[2] ELSE HexChars[1]]

\* the digests the calls are made with: those of the designs, and one no design has
Digests ==
    {DesignDigest(d) : d \in Designs} \cup
    {[i \in 1..(2 * DigestBytes) |-> IF i % 2 = 0 THEN HexChars[2] ELSE HexChars[1]]}

\* Platform.build(..., do_build = False, do_program = False): the plan
SuperBuild(design, name) == [design |-> design, name |-> name]

\* plan.digest(size = 32).hex()
PlanDigest(plan) == DesignDigest(plan.design)

\* the bitstream and the debug Verilog a build of the plan produces
Bitstream(plan) == <<"bit", plan.design>>
DebugVerilog(plan) == <<"rtl", plan.design>>

\* LocalBuildProducts(root)
LocalBuildProducts(root) == [root |-> root]

\* BuildProducts.get(filename): the file is there, and its bytes
ProdHas(f, prod, filename) == Append(prod.root, filename) \in DOMAIN f.files
ProdGet(f, prod, filename) == f.files[Append(prod.root, filename)]

ExecOutcomes == {"ok", "fail"}

\* plan.execute_local(build_dir): runs the toolchain in build_dir
execute_local(f, plan, build_dir, outcome) ==
    IF outcome = "fail" THEN Raise(f, "CalledProcessError")
    ELSE LET f1 == IF build_dir \in f.dirs THEN f ELSE Mkdir(f, build_dir)
             f2 == WriteFile(f1, Append(build_dir, plan.name \o <<".bin">>), Bitstream(plan))
             f3 == WriteFile(f2, Append(build_dir, plan.name \o <<".debug.v">>), DebugVerilog(plan))
         IN  Return(f3, LocalBuildProducts(build_dir))

\* LZMACompressor.compress(data) and .flush()
LzmaCompress(data) == <<"xz">> \o data
LzmaFlush == <<"xz-end">>

-----------------------------------------------------------------------------
(* Lookup and store *)

\* _get_from_cache
_get_from_cache(o, f, digest) ==
    LET bitstream_name == digest \o <<".bin">>
    IN  IF ~HasAttr(o, "cache_dir") THEN Raise(f, "AttributeError")
        ELSE LET bitstream_file == Append(o.cache_dir, bitstream_name)
             IN  IF ~Exists(f, bitstream_file) THEN Return(f, None)
                 ELSE Return(f, [name     |-> bitstream_name,
                                 products |-> LocalBuildProducts(o.cache_dir)])

\* the RTL half of _store_to_cache (if self.cache_rtl: ...)
StoreRtl(o, f, digest, prod, name) ==
    LET rtl_name == digest \o <<".debug.v.xz">>
        rtl_file == Append(o.cache_dir, rtl_name)
        opened   == WriteFile(f, rtl_file, << >>)
    IN  IF ~ProdHas(opened, prod, name \o <<".debug.v">>) THEN Raise(opened, "MissingArtifact")
        ELSE Return(WriteFile(opened, rtl_file,
                              LzmaCompress(ProdGet(opened, prod, name \o <<".debug.v">>)) \o LzmaFlush),
                    None)

\* _store_to_cache
_store_to_cache(o, f, digest, prod, name) ==
    LET bitstream_name == digest \o <<".bin">>
    IN  IF ~HasAttr(o, "cache_dir") THEN Raise(f, "AttributeError")
        ELSE LET bitstream_file == Append(o.cache_dir, bitstream_name)
                 opened         == WriteFile(f, bitstream_file, << >>)
             IN  IF o.cache_dir \notin f.dirs THEN Raise(f, "FileNotFoundError")
                 ELSE IF ~ProdHas(opened, prod, name \o <<".bin">>)
                 THEN Raise(opened, "MissingArtifact")
                 ELSE LET written == WriteFile(opened, bitstream_file,
                                               ProdGet(opened, prod, name \o <<".bin">>))
                      IN  IF cache_rtl(o) THEN StoreRtl(o, written, digest, prod, name)
                          ELSE Return(written, None)

-----------------------------------------------------------------------------
(* build *)

Traced(out, trace, execs) == [out EXCEPT !.trace = trace, !.execs = execs]

\* the branch of _build_elaboratable that builds the products (lines 175-180)
BuildProducts(o, f, plan, digest, name, build_dir, skip_cache, outcome) ==
    LET prod == execute_local(f, plan, build_dir, outcome)
    IN  IF prod.kind = "raise"
        THEN Traced(prod, <<"PLANNING", "CACHE_LOOKUP", "EXECUTE">>, 1)
        ELSE IF ~skip_cache
        THEN LET stored == _store_to_cache(o, prod.fs, digest, prod.val, name)
             IN  IF stored.kind = "raise"
                 THEN Traced(stored, <<"PLANNING", "CACHE_LOOKUP", "EXECUTE", "STORE">>, 1)
                 ELSE Traced(Return(stored.fs, <<name, prod.val>>),
                             <<"PLANNING", "CACHE_LOOKUP", "EXECUTE", "STORE">>, 1)
        ELSE Traced(Return(prod.fs, <<name, prod.val>>),
                    <<"PLANNING", "CACHE_LOOKUP", "EXECUTE">>, 1)

\* _build_elaboratable that tests do_build only after the cache lookup
_build_elaboratable_late(o, f, design, name, build_dir, do_build, do_program, skip_cache, outcome) ==
    LET plan   == SuperBuild(design, name)
        digest == PlanDigest(plan)
        cached == _get_from_cache(o, f, digest)
    IN  IF cached.kind = "raise"
        THEN Traced(cached, <<"PLANNING", "CACHE_LOOKUP">>, 0)
        ELSE IF ~do_build THEN Traced(Return(cached.fs, <<name, plan>>), <<"PLANNING", "CACHE_LOOKUP">>, 0)
        ELSE IF cached.val = None \/ skip_cache
        THEN BuildProducts(o, cached.fs, plan, digest, name, build_dir, skip_cache, outcome)
        ELSE Traced(Return(cached.fs, <<cached.val.name, cached.val.products>>),
                    <<"PLANNING", "CACHE_LOOKUP">>, 0)

\* _build_elaboratable
_build_elaboratable(o, f, design, name, build_dir, do_build, do_program, skip_cache, outcome) ==
    LET plan == SuperBuild(design, name)
    IN  IF ~do_build THEN Traced(Return(f, <<name, plan>>), <<"PLANNING">>, 0)
        ELSE LET digest == PlanDigest(plan)
                 cached == _get_from_cache(o, f, digest)
             IN  IF cached.kind = "raise"
                 THEN Traced(cached, <<"PLANNING", "CACHE_LOOKUP">>, 0)
                 ELSE IF cached.val = None \/ skip_cache
                 THEN BuildProducts(o, cached.fs, plan, digest, name, build_dir, skip_cache, outcome)
                 ELSE Traced(Return(cached.fs, <<cached.val.name, cached.val.products>>),
                             <<"PLANNING", "CACHE_LOOKUP">>, 0)

\* build: do_program is not passed on, _build_elaboratable takes its default
build(o, f, design, name, build_dir, do_build, do_program, skip_cache, outcome) ==
    _build_elaboratable(o, f, design, name, build_dir, do_build, FALSE, skip_cache, outcome)

-----------------------------------------------------------------------------
(* The state machine: one action per call on the instance *)

NoArgs == [none |-> TRUE]

\* the digest of a call that has none
NoDigest == << >>

\* the record of a call: what was called, what it found (the root and an entry for
\* the digest there or not, the initialization run before or not), what came of it
\* and whether it changed the filesystem, and the part of it under the root
Called(op, args, digest, out) ==
    [op |-> op, args |-> args, root |-> obj._cache_root, inited |-> initialized,
     rootExisted  |-> Exists(fs, obj._cache_root),
     hadEntry     |-> HasEntry(fs, obj._cache_root, digest),
     changed      |-> out.fs # fs,
     cacheChanged |-> out.fs # fs /\ Under(out.fs, obj._cache_root) # Under(fs, obj._cache_root),
     kind |-> out.kind, val |-> out.val, exc |-> out.exc, trace |-> out.trace, execs |-> out.execs]

\* no invocation is under way on another thread
NoCalls == << >>

\* the filesystem an instance can find: nothing there, or a bare root directory
\* left by somebody else
InitialFs == {EmptyFs, Mkdir(EmptyFs, DefaultRoot)}

\* the instance is constructed; _cache_depth is 1 unless the owner assigns it
Init ==
    /\ obj \in {NewObject(depth) : depth \in 0..MaxDepth}
    /\ fs \in InitialFs
    /\ initialized = FALSE
    /\ calls = NoCalls
    /\ ret = [op |-> "__init__", args |-> NoArgs, root |-> DefaultRoot, inited |-> FALSE,
              rootExisted |-> Exists(fs, DefaultRoot), hadEntry |-> FALSE,
              changed |-> FALSE, cacheChanged |-> FALSE,
              kind |-> "return", val |-> None, exc |-> "", trace |-> << >>, execs |-> 0]

\* the cache_root setter
SetCacheRoot ==
    \E dir \in Roots :
        /\ obj' = [obj EXCEPT !._cache_root = dir]
        /\ ret' = Called("cache_root.setter", [dir |-> dir], NoDigest, Return(fs, None))
        /\ UNCHANGED <<fs, initialized, calls>>

\* the cache_rtl setter
SetCacheRtl ==
    \E cache \in BOOLEAN :
        /\ obj' = [obj EXCEPT !._cache_rtl = cache]
        /\ ret' = Called("cache_rtl.setter", [cache |-> cache], NoDigest, Return(fs, None))
        /\ UNCHANGED <<fs, initialized, calls>>

\* a direct call of _init_cache_dir
InitCacheDir ==
    LET out == _init_cache_dir(obj, fs)
    IN  /\ fs' = out.fs
        /\ initialized' = TRUE
        /\ ret' = Called("_init_cache_dir", NoArgs, NoDigest, out)
        /\ UNCHANGED <<obj, calls>>

\* a read of the cache_root property
GetCacheRoot ==
    LET out == cache_root(obj, fs)
    IN  /\ fs' = out.fs
        /\ initialized' = TRUE
        /\ ret' = Called("cache_root", NoArgs, NoDigest, out)
        /\ UNCHANGED <<obj, calls>>

GetCacheDir ==
    \E digest \in Digests :
        LET out == _get_cache_dir(obj, fs, digest)
        IN  /\ fs' = out.fs
            /\ initialized' = TRUE
            /\ ret' = Called("_get_cache_dir", [digest |-> digest], digest, out)
            /\ UNCHANGED <<obj, calls>>

GetFromCache ==
    \E digest \in Digests :
        LET out == _get_from_cache(obj, fs, digest)
        IN  /\ fs' = out.fs
            /\ ret' = Called("_get_from_cache", [digest |-> digest], digest, out)
            /\ UNCHANGED <<obj, initialized, calls>>

\* a direct call of _store_to_cache with the products in the build directory
StoreToCache ==
    \E digest \in Digests, name \in Names :
        LET out == _store_to_cache(obj, fs, digest, LocalBuildProducts(BuildDir), name)
        IN  /\ fs' = out.fs
            /\ ret' = Called("_store_to_cache", [digest |-> digest, name |-> name], digest, out)
            /\ UNCHANGED <<obj, initialized, calls>>

Build ==
    \E design \in Designs, name \in Names, do_build \in BOOLEAN, do_program \in BOOLEAN,
       skip_cache \in BOOLEAN, outcome \in ExecOutcomes :
        LET out == build(obj, fs, design, name, BuildDir, do_build, do_program, skip_cache, outcome)
        IN  /\ fs' = out.fs
            /\ ret' = Called("build",
                             [design |-> design, name |-> name, do_build |-> do_build,
                              do_program |-> do_program, skip_cache |-> skip_cache,
                              outcome |-> outcome],
                             DesignDigest(design), out)
            /\ UNCHANGED <<obj, initialized, calls>>

\* the caller executes a plan it got from build(do_build = False) itself
ExecutePlan ==
    \E design \in Designs, name \in Names :
        LET out == execute_local(fs, SuperBuild(design, name), BuildDir, "ok")
        IN  /\ fs' = out.fs
            /\ ret' = Called("execute_local", [design |-> design, name |-> name], NoDigest,
                             Traced(out, <<"EXECUTE">>, 1))
            /\ UNCHANGED <<obj, initialized, calls>>

Next ==
    \/ SetCacheRoot
    \/ SetCacheRtl
    \/ InitCacheDir
    \/ GetCacheRoot
    \/ GetCacheDir
    \/ GetFromCache
    \/ StoreToCache
    \/ Build
    \/ ExecutePlan

Spec == Init /\ [][Next]_vars

-----------------------------------------------------------------------------
(* _decompose_digest on its own: called with every short string of hex digits *)

\* all strings of n of the first NumDigits hex digits
RECURSIVE HexStrings(_)
HexStrings(n) ==
    IF n = 0 THEN {<< >>}
    ELSE {Append(s, HexChars[k]) : s \in HexStrings(n - 1), k \in 1..NumDigits}

\* the strings _decompose_digest is called with, of even and of odd length
DecomposeInputs == UNION {HexStrings(n) : n \in 0..MaxDigestLen}

DecomposeDigest ==
    \E digest \in DecomposeInputs :
        /\ ret' = Called("_decompose_digest", [digest |-> digest], NoDigest,
                         Return(fs, _decompose_digest(digest)))
        /\ UNCHANGED <<obj, fs, initialized, calls>>

SpecDecompose == Init /\ [][DecomposeDigest]_vars

-----------------------------------------------------------------------------
(* What the statements below speak of *)

\* the calls that run the tree initialization: directly, or through self.cache_root
InitOps == {"_init_cache_dir", "cache_root", "_get_cache_dir"}

\* the two-digit lowercase hex labels, from 00 up to the last stub's
TwoDigitLabels ==
    {<<HexChars[xy[1] + 1], HexChars[xy[2] + 1]>> :
        xy \in {ab \in (0..(Radix - 1)) \X (0..(Radix - 1)) : (Radix * ab[1]) + ab[2] < Fanout}}

\* the sequences of at most k labels
RECURSIVE LabelSeqsUpTo(_)
LabelSeqsUpTo(k) ==
    IF k = 0 THEN {<< >>}
    ELSE LET shorter == LabelSeqsUpTo(k - 1)
         IN  shorter \cup {Append(s, l) : s \in {t \in shorter : Len(t) = k - 1}, l \in TwoDigitLabels}

\* <root>/<the first depth tokens of the digest>/<digest>.bin
ArtifactPath(root, depth, digest) ==
    Append(root \o SliceTo(_decompose_digest(digest), depth), digest \o <<".bin">>)

\* the products of the build directory hold <name>.bin (and <name>.debug.v)
HasArtifacts(f, name) ==
    /\ ProdHas(f, LocalBuildProducts(BuildDir), name \o <<".bin">>)
    /\ ProdHas(f, LocalBuildProducts(BuildDir), name \o <<".debug.v">>)

\* the last call was build(do_build = True)
Built == ret.op = "build" /\ ret.args.do_build

\* the digest of the design the last build() was given
BuiltDigest == DesignDigest(ret.args.design)

-----------------------------------------------------------------------------
(* C1..C10 *)

\* C1: with do_build and without skip_cache, a build of a digest that has no entry
\* (the first one, the root not being there) invokes the executor exactly once and
\* stores the result; a build of a digest that has an entry invokes it zero times
\* and returns the cached products.
C1_FirstBuildExecutesLaterBuildsHit ==
    (Built /\ ~ret.args.skip_cache /\ ret.args.outcome = "ok")
    => IF ret.hadEntry
       THEN ret.execs = 0 /\ ret.kind = "return"
       ELSE ret.execs = 1 /\ ret.kind = "return" /\ HasEntry(fs, ret.root, BuiltDigest)

\* C2: build(do_build = True, skip_cache = True) invokes the executor exactly once
\* whatever the cache holds and leaves everything under the cache root as it was.
C2_SkipCacheExecutesAndWritesNothing ==
    (Built /\ ret.args.skip_cache)
    => ret.execs = 1 /\ ~ret.cacheChanged

\* C3: after store(digest, artifacts, name) with the artifacts there, lookup(digest)
\* is a hit, and <digest>.bin read from it has the bytes of artifacts[<name>.bin].
C3_StoreThenLookupRoundTrip ==
    (ret.op = "_store_to_cache" /\ HasArtifacts(fs, ret.args.name))
    => /\ ret.kind = "return"
       /\ LET hit == _get_from_cache(obj, fs, ret.args.digest)
          IN  /\ hit.kind = "return"
              /\ hit.val # None
              /\ ProdHas(fs, hit.val.products, ret.args.digest \o <<".bin">>)
              /\ ProdGet(fs, hit.val.products, ret.args.digest \o <<".bin">>)
                     = ProdGet(fs, LocalBuildProducts(BuildDir), ret.args.name \o <<".bin">>)

\* C4: lookup(digest) of a digest that has no entry returns a miss and raises nothing.
C4_LookupOfUnstoredDigestMisses ==
    (ret.op = "_get_from_cache" /\ ~ret.hadEntry)
    => ret.kind = "return" /\ ret.val = None

\* C5: build(do_build = False) returns (name, plan) right after planning: no lookup,
\* no store, no executor, and the filesystem (the cache tree with it) is untouched,
\* whatever skip_cache and do_program are.
C5_NoBuildReturnsThePlan ==
    (ret.op = "build" /\ ~ret.args.do_build)
    => /\ ret.kind = "return"
       /\ ret.val = <<ret.args.name, SuperBuild(ret.args.design, ret.args.name)>>
       /\ ret.trace = <<"PLANNING">>
       /\ ret.execs = 0
       /\ ~ret.changed

C5_Witness ==
    /\ ret.op = "build" /\ ~ret.args.do_build
    /\ ret.args.skip_cache /\ ret.args.do_program
    /\ ret.kind = "return"
    /\ ~Exists(fs, ret.root)

\* C6: a build that hits returns the name <digest>.bin and products from which
\* <digest>.bin can be read; a build that misses, or skips the cache, returns the
\* input name and the executor's products.
C6_EffectiveName ==
    (Built /\ ret.args.outcome = "ok")
    => /\ ret.kind = "return"
       /\ IF ~ret.args.skip_cache /\ ret.hadEntry
          THEN /\ ret.val[1] = BuiltDigest \o <<".bin">>
               /\ ProdHas(fs, ret.val[2], BuiltDigest \o <<".bin">>)
          ELSE ret.val = <<ret.args.name, LocalBuildProducts(BuildDir)>>

\* C7: a build that misses runs PLANNING, CACHE_LOOKUP, EXECUTE and then STORE; when
\* the executor fails, its failure reaches the caller, there is no STORE and the
\* cache holds what it held.
C7_MissExecutesThenStores ==
    (Built /\ ~ret.args.skip_cache /\ ~ret.hadEntry)
    => IF ret.args.outcome = "ok"
       THEN ret.trace = <<"PLANNING", "CACHE_LOOKUP", "EXECUTE", "STORE">>
       ELSE /\ ret.trace = <<"PLANNING", "CACHE_LOOKUP", "EXECUTE">>
            /\ ret.kind = "raise" /\ ret.exc = "CalledProcessError"
            /\ ret.execs = 1
            /\ ~ret.cacheChanged

\* C8: store writes the primary artifact to
\* <root>/<first shard_depth tokens of the digest>/<digest>.bin, for every depth.
C8_StoreWritesTheShardedPath ==
    (ret.op = "_store_to_cache" /\ HasArtifacts(fs, ret.args.name))
    => LET path == ArtifactPath(ret.root, obj._cache_depth, ret.args.digest)
       IN  /\ path \in DOMAIN fs.files
           /\ fs.files[path] = ProdGet(fs, LocalBuildProducts(BuildDir), ret.args.name \o <<".bin">>)

\* C9 as stated: once the tree initialization has run, no later run of it changes
\* the filesystem.
C9_LaterInitNeverMutates ==
    (ret.op \in InitOps /\ ret.inited) => ~ret.changed

\* C9: the tree initialization leaves the root in existence, and when the root the
\* instance is configured with exists already (as it does after a first
\* initialization of that root) it changes nothing: no repair, no validation.
C9_InitOfExistingRootIsNoOp ==
    ret.op \in InitOps
    => /\ Exists(fs, ret.root)
       /\ ret.rootExisted => ~ret.changed

\* a later initialization, of a root that exists without the stubs below it
C9_Witness ==
    /\ ret.op \in InitOps /\ ret.inited
    /\ obj._cache_depth > 0
    /\ ret.rootExisted
    /\ Under(fs, ret.root).dirs = {ret.root}

\* C10: the initialization of a root that does not exist makes the root and below
\* it every nesting of 1 to _cache_depth two-digit labels, and nothing deeper; at
\* depth 0 the root alone.
C10_FreshRootGetsTheCompleteTree ==
    (ret.op \in InitOps /\ ~ret.rootExisted)
    => Under(fs, ret.root).dirs = {ret.root \o s : s \in LabelSeqsUpTo(obj._cache_depth)}

C10_Witness ==
    /\ ret.op \in InitOps /\ ~ret.rootExisted
    /\ obj._cache_depth >= 2
    /\ ret.root \o <<Label(Fanout - 1), Label(0)>> \in fs.dirs

-----------------------------------------------------------------------------
(* C11..C20 *)

\* the concatenation of a sequence of strings
RECURSIVE Concat(_)
Concat(tokens) == IF tokens = << >> THEN << >> ELSE Head(tokens) \o Concat(Tail(tokens))

\* the last call was _decompose_digest
Decomposed == ret.op = "_decompose_digest"

\* C11: for an even-length string d, _decompose_digest(d) returns len(d)/2 tokens of
\* two characters each, in string order, whose concatenation is d, and changes nothing.
C11_DecomposeSplitsIntoPairs ==
    (Decomposed /\ Len(ret.args.digest) % 2 = 0)
    => /\ ret.kind = "return"
       /\ Len(ret.val) = Len(ret.args.digest) \div 2
       /\ \A i \in 1..Len(ret.val) : Len(ret.val[i]) = 2
       /\ Concat(ret.val) = ret.args.digest
       /\ ~ret.changed

C11_Witness ==
    /\ Decomposed /\ ret.kind = "return"
    /\ Len(ret.args.digest) = 4
    /\ ret.val = <<<<HexChars[1], HexChars[2]>>, <<HexChars[2], HexChars[1]>>>>

\* C13 as stated: an odd-length string makes _decompose_digest raise InvalidDigest.
C13_OddLengthRaisesInvalidDigest ==
    (Decomposed /\ Len(ret.args.digest) % 2 = 1)
    => ret.kind = "raise" /\ ret.exc = "InvalidDigest"

\* C13: an odd-length string raises nothing: _decompose_digest returns the
\* (len - 1)/2 pairs of the string without its last character, which it drops.
C13_OddLengthDropsLastCharacter ==
    (Decomposed /\ Len(ret.args.digest) % 2 = 1)
    => /\ ret.kind = "return"
       /\ Len(ret.val) = (Len(ret.args.digest) - 1) \div 2
       /\ \A i \in 1..Len(ret.val) : Len(ret.val[i]) = 2
       /\ Concat(ret.val) = SubSeq(ret.args.digest, 1, Len(ret.args.digest) - 1)

C13_Witness ==
    /\ Decomposed /\ ret.kind = "return"
    /\ ret.args.digest = <<HexChars[1], HexChars[2], HexChars[2]>>
    /\ ret.val = <<<<HexChars[1], HexChars[2]>>>>

\* the last call was _store_to_cache(digest, LocalBuildProducts(build), name)
Stored == ret.op = "_store_to_cache"

\* the bytes of <name>.bin and of <name>.debug.v in the build directory
ArtifactBin(f, name) == ProdGet(f, LocalBuildProducts(BuildDir), name \o <<".bin">>)
ArtifactRtl(f, name) == ProdGet(f, LocalBuildProducts(BuildDir), name \o <<".debug.v">>)

\* the files <filename> at or below the root
FilesNamed(f, root, filename) ==
    {p \in DOMAIN f.files : IsPrefix(root, p) /\ p[Len(p)] = filename}

\* what an .xz stream decompresses to
LzmaDecompress(stream) == SubSeq(stream, 2, Len(stream) - 1)

\* C12: for _cache_depth >= 1 the shard directories of two digests are the same
\* exactly when the digests agree on their first 2 * _cache_depth characters.
C12_ShardPathsAgreeWithPrefixes ==
    (ret.op = "_get_cache_dir" /\ obj._cache_depth >= 1)
    => /\ ret.kind = "return"
       /\ \A other \in Digests :
            LET dir == _get_cache_dir(obj, fs, other)
            IN  /\ dir.kind = "return"
                /\ (dir.val = ret.val)
                       <=> (SliceTo(other, 2 * obj._cache_depth)
                                = SliceTo(ret.args.digest, 2 * obj._cache_depth))

\* C14: a store with the artifacts there succeeds, the same store once more leaves
\* the filesystem as it is, and the lookup after it yields the bytes stored last.
C14_StoreTwiceIsStoreOnce ==
    (Stored /\ HasArtifacts(fs, ret.args.name))
    => /\ ret.kind = "return"
       /\ LET again == _store_to_cache(obj, fs, ret.args.digest,
                                       LocalBuildProducts(BuildDir), ret.args.name)
              hit   == _get_from_cache(obj, again.fs, ret.args.digest)
          IN  /\ again.kind = "return"
              /\ again.fs = fs
              /\ hit.kind = "return" /\ hit.val # None
              /\ ProdGet(again.fs, hit.val.products, ret.args.digest \o <<".bin">>)
                     = ArtifactBin(fs, ret.args.name)

\* C15: with cache_rtl a store writes <digest>.debug.v.xz, which decompresses to
\* <name>.debug.v, next to <digest>.bin; without it only <digest>.bin is written.
C15_DebugArtifactRoundTrip ==
    (Stored /\ HasArtifacts(fs, ret.args.name))
    => /\ ret.kind = "return"
       /\ FilesNamed(fs, ret.root, ret.args.digest \o <<".bin">>) # {}
       /\ IF obj._cache_rtl
          THEN \E p \in FilesNamed(fs, ret.root, ret.args.digest \o <<".debug.v.xz">>) :
                   LzmaDecompress(fs.files[p]) = ArtifactRtl(fs, ret.args.name)
          ELSE FilesNamed(fs, ret.root, ret.args.digest \o <<".debug.v.xz">>) = {}

\* C18: a store whose products lack <name>.bin raises MissingArtifact and leaves the
\* cache as it was, so that the lookup after it is a miss.
C18_FailedStoreLeavesNoEntry ==
    (Stored /\ ~ProdHas(fs, LocalBuildProducts(BuildDir), ret.args.name \o <<".bin">>))
    => /\ ret.kind = "raise" /\ ret.exc = "MissingArtifact"
       /\ ~ret.cacheChanged
       /\ LET miss == _get_from_cache(obj, fs, ret.args.digest)
          IN  miss.kind = "return" /\ miss.val = None

\* <root>/<the first depth tokens of the digest>, the directory a store writes to
ShardDir(root, depth, digest) == root \o SliceTo(_decompose_digest(digest), depth)

-----------------------------------------------------------------------------
(* A store that was interrupted: the cache holds the file it had opened *)

\* the tree of the default root with <digest>.bin in its shard directory as
\* open(bitstream_file, 'wb') leaves it before the first byte is written
LeftoverFs(depth, digest) ==
    WriteFile(_init_dir(Mkdir(EmptyFs, DefaultRoot), DefaultRoot, depth, 0),
              ArtifactPath(DefaultRoot, depth, digest), << >>)

\* the instance is constructed over the cache the interrupted store left behind
InitLeftover ==
    /\ obj \in {NewObject(depth) : depth \in 0..MaxDepth}
    /\ fs \in {LeftoverFs(obj._cache_depth, digest) : digest \in Digests}
    /\ initialized = FALSE
    /\ calls = NoCalls
    /\ ret = [op |-> "__init__", args |-> NoArgs, root |-> DefaultRoot, inited |-> FALSE,
              rootExisted |-> TRUE, hadEntry |-> FALSE,
              changed |-> FALSE, cacheChanged |-> FALSE,
              kind |-> "return", val |-> None, exc |-> "", trace |-> << >>, execs |-> 0]

SpecLeftover == InitLeftover /\ [][Next]_vars

\* the file an interrupted store of the digest left is in its shard directory
LeftoverAt(digest) ==
    /\ ArtifactPath(DefaultRoot, obj._cache_depth, digest) \in DOMAIN fs.files
    /\ fs.files[ArtifactPath(DefaultRoot, obj._cache_depth, digest)] = << >>

\* C17: the file of an interrupted store stays where it is, a lookup of its digest
\* is a hit, and a build of the design with that digest returns the entry without
\* running the toolchain.
C17_InterruptedStoreIsAFalseHit ==
    /\ (ret.op = "_get_from_cache" /\ ret.root = DefaultRoot /\ LeftoverAt(ret.args.digest))
       => /\ ret.kind = "return" /\ ret.val # None
          /\ ret.val.name = ret.args.digest \o <<".bin">>
    /\ (Built /\ ~ret.args.skip_cache /\ ret.root = DefaultRoot /\ LeftoverAt(BuiltDigest))
       => ret.kind = "return" /\ ret.execs = 0 /\ ~ret.changed

-----------------------------------------------------------------------------
(* Two threads use one instance at a time: each runs build() or reads cache_root,
   one filesystem access per step *)

Threads == {"t1", "t2"}

\* Path.mkdir(): exist_ok and parents are left at False
PathMkdir(f, p) ==
    IF Exists(f, p) THEN Raise(f, "FileExistsError")
    ELSE IF ~ParentExists(f, p) THEN Raise(f, "FileNotFoundError")
    ELSE Return(Mkdir(f, p), None)

\* the directory a thread's _init_dir frames are at: stack holds the loop index i
\* of every frame, outermost first
StubPath(root, stack) == root \o [k \in 1..Len(stack) |-> Label(stack[k])]

\* the innermost loop goes on to its next i; a loop at its end returns to the frame
\* that called it, which goes on in turn; << >> when the outermost loop has ended
RECURSIVE Advance(_)
Advance(stack) ==
    IF stack = << >> THEN << >>
    ELSE LET rest == SubSeq(stack, 1, Len(stack) - 1)
             i    == stack[Len(stack)] + 1
         IN  IF i = Fanout THEN Advance(rest) ELSE Append(rest, i)

\* the stub made, the loop goes on without the call into the stub
DescendNever(stack, depth) == Advance(stack)

\* _init_dir(cache_stub, depth - 1) for the stub just made: a new frame, or at
\* depth - 1 = 0 an immediate return
Descend(stack, depth) ==
    IF Len(stack) < depth THEN Append(stack, 0) ELSE Advance(stack)

\* a thread at the start of a read of cache_root, and of build(design)
RootCall == [op |-> "cache_root", pc |-> "exists", design |-> "", stack |-> << >>,
             exc |-> "", sawEntry |-> FALSE, execs |-> 0]
BuildCall(design) == [op |-> "build", pc |-> "plan", design |-> design, stack |-> << >>,
                      exc |-> "", sawEntry |-> FALSE, execs |-> 0]

Finished(c) == c.pc \in {"returned", "failed"}
Failed(c, e) == [c EXCEPT !.pc = "failed", !.exc = e]
At(c, pc, stack) == [c EXCEPT !.pc = pc, !.stack = stack]

\* the loop of _init_dir goes on from the stack, or _init_cache_dir returns
Looping(c, stack) == At(c, IF stack = << >> THEN "returned" ELSE "stub_exists", stack)

\* one step of a thread in the cache_root getter, that is in _init_cache_dir: the
\* test of line 65, the mkdir of line 68, the test of line 76, the mkdir of line 77
InitStep(t) ==
    LET c     == calls[t]
        root  == obj._cache_root
        depth == cache_depth(obj)
        stub  == StubPath(root, c.stack)
        made  == PathMkdir(fs, IF c.pc = "mkdir" THEN root ELSE stub)
    IN  /\ c.op = "cache_root" /\ ~Finished(c)
        /\ CASE c.pc = "exists" ->
                  /\ calls' = [calls EXCEPT ![t] = At(c, IF Exists(fs, root) THEN "returned"
                                                         ELSE "mkdir", << >>)]
                  /\ fs' = fs
             [] c.pc = "mkdir" ->
                  /\ calls' = [calls EXCEPT ![t] =
                                  IF made.kind = "raise" THEN Failed(c, made.exc)
                                  ELSE Looping(c, IF depth = 0 THEN << >> ELSE <<0>>)]
                  /\ fs' = made.fs
             [] c.pc = "stub_exists" ->
                  /\ calls' = [calls EXCEPT ![t] =
                                  IF Exists(fs, stub) THEN Looping(c, Advance(c.stack))
                                  ELSE At(c, "stub_mkdir", c.stack)]
                  /\ fs' = fs
             [] c.pc = "stub_mkdir" ->
                  /\ calls' = [calls EXCEPT ![t] =
                                  IF made.kind = "raise" THEN Failed(c, made.exc)
                                  ELSE Looping(c, Descend(c.stack, depth))]
                  /\ fs' = made.fs
        /\ UNCHANGED <<obj, initialized, ret>>

\* one step of a thread in build(design, do_build = True, skip_cache = False): the
\* plan and its digest (lines 159-170), the lookup (172), the toolchain (176), and
\* the store: the open of <digest>.bin (137-140), its write (141), the RTL (143-151)
BuildStep(t) ==
    LET c      == calls[t]
        plan   == SuperBuild(c.design, <<"top">>)
        digest == PlanDigest(plan)
        prod   == LocalBuildProducts(BuildDir)
        cached == _get_from_cache(obj, fs, digest)
        ran    == execute_local(fs, plan, BuildDir, "ok")
    IN  /\ c.op = "build" /\ ~Finished(c)
        /\ CASE c.pc = "plan" ->
                  /\ calls' = [calls EXCEPT ![t].pc = "lookup"]
                  /\ fs' = fs
             [] c.pc = "lookup" ->
                  /\ calls' = [calls EXCEPT ![t] =
                                  [(IF cached.kind = "raise" THEN Failed(c, cached.exc)
                                    ELSE IF cached.val = None THEN At(c, "execute", << >>)
                                    ELSE At(c, "returned", << >>))
                                   EXCEPT !.sawEntry = HasEntry(fs, obj._cache_root, digest)]]
                  /\ fs' = cached.fs
             [] c.pc = "execute" ->
                  /\ calls' = [calls EXCEPT ![t].pc = "open", ![t].execs = @ + 1]
                  /\ fs' = ran.fs
             [] c.pc = "open" ->
                  IF ~HasAttr(obj, "cache_dir")
                  THEN calls' = [calls EXCEPT ![t] = Failed(c, "AttributeError")] /\ fs' = fs
                  ELSE IF obj.cache_dir \notin fs.dirs
                  THEN calls' = [calls EXCEPT ![t] = Failed(c, "FileNotFoundError")] /\ fs' = fs
                  ELSE /\ calls' = [calls EXCEPT ![t].pc = "write"]
                       /\ fs' = WriteFile(fs, Append(obj.cache_dir, digest \o <<".bin">>), << >>)
             [] c.pc = "write" ->
                  IF ~ProdHas(fs, prod, <<"top", ".bin">>)
                  THEN calls' = [calls EXCEPT ![t] = Failed(c, "MissingArtifact")] /\ fs' = fs
                  ELSE /\ calls' = [calls EXCEPT ![t].pc = IF cache_rtl(obj) THEN "rtl"
                                                            ELSE "returned"]
                       /\ fs' = WriteFile(fs, Append(obj.cache_dir, digest \o <<".bin">>),
                                          ProdGet(fs, prod, <<"top", ".bin">>))
             [] c.pc = "rtl" ->
                  LET rtl == StoreRtl(obj, fs, digest, prod, <<"top">>)
                  IN  /\ calls' = [calls EXCEPT ![t] = IF rtl.kind = "raise"
                                                       THEN Failed(c, rtl.exc)
                                                       ELSE At(c, "returned", << >>)]
                      /\ fs' = rtl.fs
        /\ UNCHANGED <<obj, initialized, ret>>

\* the instance is constructed over a filesystem without the cache root, and each
\* thread sets out on its call; the builds are of one design
InitConcurrent ==
    /\ obj \in {NewObject(depth) : depth \in 0..MaxDepth}
    /\ fs = EmptyFs
    /\ initialized = FALSE
    /\ ret = [op |-> "__init__", args |-> NoArgs, root |-> DefaultRoot, inited |-> FALSE,
              rootExisted |-> FALSE, hadEntry |-> FALSE,
              changed |-> FALSE, cacheChanged |-> FALSE,
              kind |-> "return", val |-> None, exc |-> "", trace |-> << >>, execs |-> 0]
    /\ \E design \in Designs : calls \in [Threads -> {RootCall, BuildCall(design)}]

NextConcurrent ==
    \E t \in Threads :
        \/ InitStep(t)
        \/ BuildStep(t)

SpecConcurrent == InitConcurrent /\ [][NextConcurrent]_vars

\* the threads that run build(), and those that read cache_root
Builders == {t \in DOMAIN calls : calls[t].op = "build"}
Initializers == {t \in DOMAIN calls : calls[t].op = "cache_root"}

\* every directory of the tree of the configured root is there
TreeComplete ==
    \A s \in LabelSeqsUpTo(obj._cache_depth) : (obj._cache_root \o s) \in fs.dirs

\* C16: of two concurrent builds of one design no one excludes the other: a build
\* whose lookup ran while the digest had no entry misses and goes on to the
\* toolchain and the store, one whose lookup ran with the entry's file there, even
\* while the other is still writing it, returns the hit without the toolchain.
C16_ConcurrentBuildsMissOrHit ==
    \A t \in Builders :
        calls[t].pc \notin {"plan", "lookup"}
        => IF calls[t].sawEntry
           THEN calls[t].pc = "returned" /\ calls[t].execs = 0
           ELSE calls[t].pc \in {"execute", "open", "write", "rtl", "returned"}

\* C20 as stated: of the concurrent first reads of cache_root none fails, and none
\* returns before the tree is complete.
C20_ConcurrentFirstUseIsHarmless ==
    \A t \in Initializers :
        /\ calls[t].pc # "failed"
        /\ calls[t].pc = "returned" => TreeComplete

\* C20: a concurrent first read of cache_root can fail, with FileExistsError from
\* the mkdir of the root when the other thread made the root first, and it can
\* return before the tree is complete; the two never fail both, no one fails at a
\* stub, and when both are through the tree is complete.
C20_OneMayFailAndTheTreeCompletes ==
    /\ \A t \in Initializers :
          calls[t].pc = "failed" => calls[t].exc = "FileExistsError" /\ calls[t].stack = << >>
    /\ Cardinality({t \in Initializers : calls[t].pc = "failed"}) <= 1
    /\ (Initializers # {} /\ \A t \in Initializers : Finished(calls[t])) => TreeComplete

\* one thread lost the race for the root and failed, the other made the full tree
C20_Witness ==
    /\ Initializers = Threads
    /\ obj._cache_depth = MaxDepth
    /\ \E t \in Threads, u \in Threads :
          /\ calls[t].pc = "failed" /\ calls[t].exc = "FileExistsError"
          /\ calls[u].pc = "returned"
    /\ TreeComplete

\* one thread has returned from the initialization while the other is still
\* making the tree
C20_ReturnedEarly ==
    /\ Initializers = Threads
    /\ \E t \in Threads : calls[t].pc = "returned"
    /\ ~TreeComplete

====
